---- MODULE Spec2Model ----
(***************************************************************************)
(* react-hook-form-storage: the useFormStorage hook and its helpers        *)
(* (filterIncludedOrExcludedFields, transformValues, debouncer) as a state *)
(* machine of one hook session: a form, a key/value store, the hook's two  *)
(* status flags, the change subscription, the debounce timer and the       *)
(* asynchronous adapter calls in flight.                                   *)
(*                                                                         *)
(* A field mapping (a JavaScript object) is a sequence of <<key, value>>   *)
(* pairs in the object's own key order.  A string|null result is a         *)
(* sequence of length at most one: <<>> is null, <<text>> is the string.   *)
(* A JSON text is a sequence of tokens.  A value is a number, a Date or a   *)
(* string.                                                                 *)
(***************************************************************************)
EXTENDS Integers, Sequences, FiniteSets, TLC

(***************************************************************************)
(* Bounds of the model.                                                    *)
(***************************************************************************)
\* user-initiated operations (form changes, save(), clear(), restore(),
\* re-renders, unmount) per session
MaxOps == 2

\* the form of the session: its fields, in the order of its default values
FieldOrder == <<"a", "b">>
Fields == {FieldOrder[i] : i \in 1..Len(FieldOrder)}
\* the values a user can give a field
UserValues == {1}
\* the numbers a JSON text of the model can hold
IntRange == -9..9
\* Values that are no numbers are coded by integers outside IntRange: a
\* Date object, and the string its toISOString() returns.
SomeDate == 100
SomeDateString == 200

(***************************************************************************)
(* Field mappings.                                                         *)
(***************************************************************************)
Keys(m) == {m[i][1] : i \in 1..Len(m)}

Has(m, k) == k \in Keys(m)

Get(m, k) == m[CHOOSE i \in 1..Len(m) : m[i][1] = k][2]

\* { ...acc, [field]: value }: an existing key keeps its place, a new one
\* is appended
Put(m, k, v) ==
    IF Has(m, k)
    THEN [i \in 1..Len(m) |-> IF m[i][1] = k THEN <<k, v>> ELSE m[i]]
    ELSE Append(m, <<k, v>>)

(***************************************************************************)
(* filterIncludedOrExcludedFields (utils).  included and excluded are      *)
(* optional arrays: <<>> is undefined, <<S>> is the array with elements S  *)
(* (an empty array is defined, and truthy).                                *)
(***************************************************************************)
RECURSIVE FilterReduce(_, _, _, _, _)
FilterReduce(values, included, excluded, i, acc) ==
    IF i > Len(values) THEN acc
    ELSE LET field == values[i][1]
             value == values[i][2]
         IN  IF included # <<>> /\ field \notin included[1]
             THEN FilterReduce(values, included, excluded, i + 1, acc)
             ELSE IF excluded # <<>> /\ field \in excluded[1]
             THEN FilterReduce(values, included, excluded, i + 1, acc)
             ELSE FilterReduce(values, included, excluded, i + 1,
                               Put(acc, field, value))

\* (mutant) excluded is not looked at
filter_IgnoringExcluded(values, included, excluded) ==
    FilterReduce(values, included, <<>>, 1, <<>>)

filterIncludedOrExcludedFields(values, included, excluded) ==
    FilterReduce(values, included, excluded, 1, <<>>)

(***************************************************************************)
(* transformValues (utils).  A serializer is a mapping from field to an    *)
(* entry [serialize, deserialize]; each function is "none" (undefined),    *)
(* "inc" (v + 1), "dec" (v - 1), "toISOString" (date => date.toISOString()),*)
(* "newDate" (s => new Date(s)) or "throw" (a function that throws).       *)
(* The result is [threw, val].                                             *)
(***************************************************************************)
Throws(fn) == fn = "throw"

Call(fn, v) ==
    IF fn = "inc" THEN v + 1
    ELSE IF fn = "dec" THEN v - 1
    ELSE IF fn = "toISOString" /\ v = SomeDate THEN SomeDateString
    ELSE IF fn = "newDate" /\ v = SomeDateString THEN SomeDate
    ELSE v

RECURSIVE TransformReduce(_, _, _, _, _)
TransformReduce(values, serializer, deserialize, i, acc) ==
    IF i > Len(values) THEN [threw |-> FALSE, val |-> acc]
    ELSE LET field == values[i][1]
             value == values[i][2]
         IN  IF ~Has(serializer, field)
             THEN TransformReduce(values, serializer, deserialize, i + 1,
                                  Put(acc, field, value))
             ELSE LET fieldSerializer == Get(serializer, field)
                      transformFn == IF deserialize
                                     THEN fieldSerializer.deserialize
                                     ELSE fieldSerializer.serialize
                  IN  IF transformFn = "none"
                      THEN TransformReduce(values, serializer, deserialize,
                                           i + 1, acc)
                      ELSE IF Throws(transformFn)
                      THEN [threw |-> TRUE, val |-> <<>>]
                      ELSE TransformReduce(values, serializer, deserialize,
                                           i + 1,
                                           Put(acc, field,
                                               Call(transformFn, value)))

\* (mutant) the direction is ignored: always serialize
transformValues_AlwaysSerialize(values, serializer, deserialize) ==
    TransformReduce(values, serializer, FALSE, 1, <<>>)

transformValues(values, serializer, deserialize) ==
    TransformReduce(values, serializer, deserialize, 1, <<>>)

(***************************************************************************)
(* JSON.stringify and JSON.parse on the records of the model: an object of *)
(* values is the token sequence { k : v , k : v }.  A number is written as  *)
(* its digits; a Date is written by its toJSON, the string of              *)
(* toISOString(), and is read back as that string.                         *)
(***************************************************************************)
StringToken == "\"2020-01-01T00:00:00.000Z\""

StringifyValue(v) == IF v \in IntRange THEN ToString(v) ELSE StringToken

RECURSIVE StringifyEntries(_, _)
StringifyEntries(m, i) ==
    IF i > Len(m) THEN <<>>
    ELSE (IF i > 1 THEN <<",">> ELSE <<>>)
         \o <<m[i][1], ":", StringifyValue(m[i][2])>>
         \o StringifyEntries(m, i + 1)

JsonStringify(m) == <<"{">> \o StringifyEntries(m, 1) \o <<"}">>

IsNumberToken(t) == \E n \in IntRange : ToString(n) = t

NumberOf(t) == CHOOSE n \in IntRange : ToString(n) = t

IsValueToken(t) == IsNumberToken(t) \/ t = StringToken

ValueOf(t) == IF t = StringToken THEN SomeDateString ELSE NumberOf(t)

IsKeyToken(t) == t \notin {"{", "}", ":", ",", "null"} /\ ~IsValueToken(t)

\* the members of an object from token i on: [ok, val]
RECURSIVE ParseMembers(_, _, _)
ParseMembers(text, i, acc) ==
    IF i + 3 > Len(text) THEN [ok |-> FALSE, val |-> <<>>]
    ELSE IF ~(IsKeyToken(text[i]) /\ text[i + 1] = ":"
              /\ IsValueToken(text[i + 2]))
    THEN [ok |-> FALSE, val |-> <<>>]
    ELSE LET next == Put(acc, text[i], ValueOf(text[i + 2]))
         IN  IF text[i + 3] = "}"
             THEN [ok |-> i + 3 = Len(text), val |-> next]
             ELSE IF text[i + 3] = ","
             THEN ParseMembers(text, i + 4, next)
             ELSE [ok |-> FALSE, val |-> <<>>]

\* [ok, isNull, val]: ok is FALSE for a SyntaxError
JsonParse(text) ==
    IF text = <<"null">> THEN [ok |-> TRUE, isNull |-> TRUE, val |-> <<>>]
    ELSE IF Len(text) < 2 \/ text[1] # "{"
    THEN [ok |-> FALSE, isNull |-> FALSE, val |-> <<>>]
    ELSE IF text = <<"{", "}">>
    THEN [ok |-> TRUE, isNull |-> FALSE, val |-> <<>>]
    ELSE LET r == ParseMembers(text, 2, <<>>)
         IN  [ok |-> r.ok, isNull |-> FALSE, val |-> r.val]

(***************************************************************************)
(* The options of useFormStorage the model varies.  sync and failing       *)
(* describe options.storage: a synchronous Storage (localStorage) or an    *)
(* asynchronous adapter, and whether its operations fail (a synchronous    *)
(* throw of a Storage, a rejection of an adapter).                         *)
(***************************************************************************)
Delay == 300
Debounces == {0, Delay, 500}

Both == [serialize |-> "inc", deserialize |-> "dec"]
SerializeOnly == [serialize |-> "inc", deserialize |-> "none"]
Throwing == [serialize |-> "throw", deserialize |-> "throw"]
IsoDate == [serialize |-> "toISOString", deserialize |-> "newDate"]

\* included / excluded / serializer, as one choice
Profiles ==
    { [included |-> <<>>, excluded |-> <<>>, serializer |-> <<>>],
      [included |-> <<{"a"}>>, excluded |-> <<>>,
       serializer |-> <<<<"a", Both>>>>],
      [included |-> <<>>, excluded |-> <<{"a"}>>,
       serializer |-> <<<<"b", SerializeOnly>>>>],
      [included |-> <<>>, excluded |-> <<>>,
       serializer |-> <<<<"b", Throwing>>>>] }

Options ==
    { [autoRestore |-> ar, autoSave |-> as, debounce |-> d,
       included |-> p.included, excluded |-> p.excluded,
       serializer |-> p.serializer, sync |-> sy, failing |-> fl] :
      ar \in BOOLEAN, as \in BOOLEAN, d \in {0, Delay}, p \in Profiles,
      sy \in BOOLEAN, fl \in BOOLEAN }

\* what the store can hold at the key when the session starts
\* (<<>>: nothing; an empty string; text that is no JSON; JSON null; objects)
InitialItems ==
    { <<>>, << <<>> >>, << <<"malformatted data">> >>, << <<"null">> >>,
      << JsonStringify(<<<<"a", 2>>>>) >>,
      << JsonStringify(<<<<"a", 2>>, <<"b", 2>>>>) >> }

FORM_DEFAULT_VALUES == [i \in 1..Len(FieldOrder) |-> <<FieldOrder[i], 0>>]

SaveStorageError == "Failed to save data to storage"
RestoreError == "Failed to restore data from storage"
ClearError == "Failed to clear storage"
SaveError == "Failed to save data"
Messages == {SaveStorageError, RestoreError, ClearError, SaveError}

(***************************************************************************)
(* State.                                                                  *)
(*   opts      the options of the latest render                            *)
(*   phase     "rendered" (first render done, effects not yet run),        *)
(*             "mounted", "unmounted"                                      *)
(*   w         everything the hook's code reads and writes:                *)
(*     form        the form's values (getValues())                         *)
(*     item        what the store holds at the key (<<>>: nothing)         *)
(*     isRestored, isLoading   the two useState flags                      *)
(*     errors      console.error calls, counted per message                *)
(*     calls       calls of storage.getItem/setItem/removeItem, counted    *)
(*     onSave, onRestore   calls of the two callbacks: count and last      *)
(*                 argument                                                *)
(*     rejections  promises of save(), clear(), restore() or of the watch  *)
(*                 callback that were rejected                             *)
(*     inflight    the asynchronous runs that have not finished            *)
(*     timeout     the pending timer of the current debouncer (<<>>: none) *)
(*     orphans     pending timers of debouncers no longer subscribed       *)
(*   sub       the watch subscription: <<>> or <<o>>, o the options whose  *)
(*             saveToStorage the subscription captured                     *)
(*   ops       user operations so far                                      *)
(*   restoreCalls  calls of restore() by the user                          *)
(*   last      the latest step: its name, the path it took, its run        *)
(***************************************************************************)
VARIABLES opts, phase, w, sub, ops, restoreCalls, last

vars == <<opts, phase, w, sub, ops, restoreCalls, last>>

Run(op, pc, o) ==
    [op |-> op, pc |-> pc, o |-> o,
     got |-> <<>>, text |-> <<>>, vals |-> <<>>, rejected |-> FALSE]

Event(op, path, run) == [op |-> op, path |-> path, run |-> run]

RemoveAt(s, i) == [j \in 1..(Len(s) - 1) |-> IF j < i THEN s[j] ELSE s[j + 1]]

LogError(world, msg) == [world EXCEPT !.errors[msg] = @ + 1]

Called(world, method) == [world EXCEPT !.calls[method] = @ + 1]

(***************************************************************************)
(* storageAdapter (the shim): each operation awaits the store's operation  *)
(* in a try and logs in the catch.  What the shim's promise settles to,    *)
(* once the store's operation has taken effect or failed:                  *)
(* [world, value, rejected].                                               *)
(***************************************************************************)
\* (mutant) the catch of setItem logs with the message of removeItem
setItem_WrongTag(world, text, o) ==
    IF o.failing
    THEN [world |-> LogError(world, ClearError), value |-> <<>>,
          rejected |-> FALSE]
    ELSE [world |-> [world EXCEPT !.item = <<text>>], value |-> <<>>,
          rejected |-> FALSE]

setItem(world, text, o) ==
    IF o.failing
    THEN [world |-> LogError(world, SaveStorageError), value |-> <<>>,
          rejected |-> FALSE]
    ELSE [world |-> [world EXCEPT !.item = <<text>>], value |-> <<>>,
          rejected |-> FALSE]

\* (mutant) getItem without the try/catch: the failure reaches the caller
getItem_NoCatch(world, o) ==
    IF o.failing
    THEN [world |-> world, value |-> <<>>, rejected |-> TRUE]
    ELSE [world |-> world, value |-> world.item, rejected |-> FALSE]

getItem(world, o) ==
    IF o.failing
    THEN [world |-> LogError(world, RestoreError), value |-> <<>>,
          rejected |-> FALSE]
    ELSE [world |-> world, value |-> world.item, rejected |-> FALSE]

\* (mutant) removeItem without the try/catch: the failure reaches the caller
removeItem_NoCatch(world, o) ==
    IF o.failing
    THEN [world |-> world, value |-> <<>>, rejected |-> TRUE]
    ELSE [world |-> [world EXCEPT !.item = <<>>], value |-> <<>>,
          rejected |-> FALSE]

removeItem(world, o) ==
    IF o.failing
    THEN [world |-> LogError(world, ClearError), value |-> <<>>,
          rejected |-> FALSE]
    ELSE [world |-> [world EXCEPT !.item = <<>>], value |-> <<>>,
          rejected |-> FALSE]

Settle(world, r) ==
    IF r.pc = "get" THEN getItem(world, r.o)
    ELSE IF r.pc = "set" THEN setItem(world, r.text, r.o)
    ELSE removeItem(world, r.o)

(***************************************************************************)
(* A call of the shim.  A synchronous Storage acts during the call, and    *)
(* the run is left at "resume": the continuation of the caller, a          *)
(* microtask.  An asynchronous adapter leaves the call in flight, at       *)
(* "get"/"set"/"remove", until it settles.                                 *)
(***************************************************************************)
Await(world, r) ==
    IF r.o.sync
    THEN LET s == Settle(world, r)
         IN  [s.world EXCEPT !.inflight =
                 Append(@, [r EXCEPT !.pc = "resume", !.got = s.value,
                                     !.rejected = s.rejected])]
    ELSE [world EXCEPT !.inflight = Append(@, r)]

(***************************************************************************)
(* saveToStorage up to its await: select, serialize, encode, call setItem. *)
(* A throwing serialize function lands in the catch of saveToStorage.      *)
(***************************************************************************)
\* (mutant) the values are not filtered before they are stored
saveToStorage_Unfiltered(world, values, o) ==
    LET serialized == transformValues(values, o.serializer, FALSE)
    IN  IF serialized.threw THEN LogError(world, SaveError)
        ELSE Await(Called(world, "setItem"),
                   [Run("save", "set", o) EXCEPT
                       !.text = JsonStringify(serialized.val),
                       !.vals = values])

saveToStorage(world, values, o) ==
    LET valuesToStore ==
            filterIncludedOrExcludedFields(values, o.included, o.excluded)
        serialized == transformValues(valuesToStore, o.serializer, FALSE)
    IN  IF serialized.threw THEN LogError(world, SaveError)
        ELSE Await(Called(world, "setItem"),
                   [Run("save", "set", o) EXCEPT
                       !.text = JsonStringify(serialized.val),
                       !.vals = valuesToStore])

\* after the await: onSave?.(valuesToStore), or the catch
SaveContinue(world, r, rejected) ==
    IF rejected THEN LogError(world, SaveError)
    ELSE [world EXCEPT !.onSave = [count |-> @.count + 1, arg |-> r.vals]]

(***************************************************************************)
(* clear: async () => storageAdapter.removeItem(key).                      *)
(***************************************************************************)
clear(world, o) == Await(Called(world, "removeItem"), Run("clear", "remove", o))

\* (mutant) clear() also resets isRestored
ClearContinue_ResetsRestored(world, rejected) ==
    [world EXCEPT !.isRestored = FALSE]

ClearContinue(world, rejected) ==
    IF rejected THEN [world EXCEPT !.rejections = @ + 1] ELSE world

(***************************************************************************)
(* debouncer (utils): the wrapped function clears the pending timeout and  *)
(* sets a new one holding the arguments of this call.                      *)
(***************************************************************************)
\* (mutant) a pending timeout is kept, the new call is dropped
debouncer_KeepsPending(world, args, o) ==
    IF world.timeout # <<>> THEN world
    ELSE [world EXCEPT !.timeout = <<[args |-> args, o |-> o]>>]

debouncer(world, args, o) ==
    [world EXCEPT !.timeout = <<[args |-> args, o |-> o]>>]

(***************************************************************************)
(* The form: setValue writes one field and notifies the watch subscriber   *)
(* with the snapshot of all values.  The subscriber is saveToStorage, or   *)
(* debouncer(saveToStorage, debounce) when debounce is set.                *)
(***************************************************************************)
WatchCallback(world, s) ==
    IF s = <<>> THEN world
    ELSE IF s[1].debounce # 0 THEN debouncer(world, world.form, s[1])
    ELSE saveToStorage(world, world.form, s[1])

setValue(world, s, field, value) ==
    WatchCallback([world EXCEPT !.form = Put(@, field, value)], s)

RECURSIVE SetValues(_, _, _, _)
SetValues(world, s, values, i) ==
    IF i > Len(values) THEN world
    ELSE SetValues(setValue(world, s, values[i][1], values[i][2]), s,
                   values, i + 1)

(***************************************************************************)
(* restoreDataFromStorage: the part before the await, and its continuation *)
(* once getItem has settled.                                               *)
(***************************************************************************)
restoreDataFromStorage(world, o) ==
    Await(Called([world EXCEPT !.isLoading = TRUE], "getItem"),
          Run("restore", "get", o))

\* the path of the continuation
RestorePath(storedValue, o, rejected) ==
    IF rejected THEN "rejected"
    ELSE IF storedValue = <<>> \/ storedValue[1] = <<>> THEN "absent"
    ELSE LET parsedValue == JsonParse(storedValue[1])
         IN  IF ~parsedValue.ok THEN "syntaxError"
             ELSE IF parsedValue.isNull THEN "typeError"
             ELSE IF transformValues(
                         filterIncludedOrExcludedFields(
                             parsedValue.val, o.included, o.excluded),
                         o.serializer, TRUE).threw
             THEN "transformError"
             ELSE "applied"

\* (mutant) the fields are written as stored, not deserialized
RestoreApply_Raw(world, s, storedValue, o) ==
    LET parsedValue == JsonParse(storedValue[1]).val
        valuesToRestore ==
            filterIncludedOrExcludedFields(parsedValue, o.included, o.excluded)
        written == SetValues(world, s, valuesToRestore, 1)
    IN  [written EXCEPT
            !.isRestored = TRUE,
            !.onRestore = [count |-> @.count + 1, arg |-> valuesToRestore]]

\* the try block on the path "applied"
RestoreApply(world, s, storedValue, o) ==
    LET parsedValue == JsonParse(storedValue[1]).val
        valuesToRestore ==
            filterIncludedOrExcludedFields(parsedValue, o.included, o.excluded)
        deserializedValues ==
            transformValues(valuesToRestore, o.serializer, TRUE).val
        written == SetValues(world, s, deserializedValues, 1)
    IN  [written EXCEPT
            !.isRestored = TRUE,
            !.onRestore = [count |-> @.count + 1, arg |-> valuesToRestore]]

\* (mutant) the fields are deserialized and written one by one: those whose
\* function does not throw are written although another one throws
RestoreContinue_PartialWrite(world, s, storedValue, o, rejected) ==
    LET path == RestorePath(storedValue, o, rejected)
        harmless ==
            SelectSeq(filterIncludedOrExcludedFields(
                          JsonParse(storedValue[1]).val, o.included,
                          o.excluded),
                      LAMBDA e : \/ ~Has(o.serializer, e[1])
                                 \/ Get(o.serializer, e[1]).deserialize
                                        # "throw")
        tried == IF path = "absent" THEN world
                 ELSE IF path = "applied"
                 THEN RestoreApply(world, s, storedValue, o)
                 ELSE IF path = "transformError"
                 THEN LogError(
                          SetValues(world, s,
                                    transformValues(harmless, o.serializer,
                                                    TRUE).val, 1),
                          RestoreError)
                 ELSE LogError(world, RestoreError)
    IN  [tried EXCEPT !.isLoading = FALSE]

\* (mutant) a run that finds nothing reports a restoration
RestoreContinue_AbsentRestores(world, s, storedValue, o, rejected) ==
    LET path == RestorePath(storedValue, o, rejected)
        tried == IF path = "absent" THEN [world EXCEPT !.isRestored = TRUE]
                 ELSE IF path = "applied"
                 THEN RestoreApply(world, s, storedValue, o)
                 ELSE LogError(world, RestoreError)
    IN  [tried EXCEPT !.isLoading = FALSE]

\* (mutant) no finally: isLoading is reset on the paths without exception
RestoreContinue_NoFinally(world, s, storedValue, o, rejected) ==
    LET path == RestorePath(storedValue, o, rejected)
    IN  IF path = "absent" THEN [world EXCEPT !.isLoading = FALSE]
        ELSE IF path = "applied"
        THEN [RestoreApply(world, s, storedValue, o) EXCEPT
                 !.isLoading = FALSE]
        ELSE LogError(world, RestoreError)

RestoreContinue(world, s, storedValue, o, rejected) ==
    LET path == RestorePath(storedValue, o, rejected)
        tried == IF path = "absent" THEN world
                 ELSE IF path = "applied"
                 THEN RestoreApply(world, s, storedValue, o)
                 ELSE LogError(world, RestoreError)
    IN  [tried EXCEPT !.isLoading = FALSE]

(***************************************************************************)
(* Initial state: the first render has run (useState), the effects not.    *)
(***************************************************************************)
InitialLoading(o) == o.autoRestore

\* the first render of a form with the values defaultValues, the storage
\* holding it at the key
FirstRender(defaultValues, it, o) ==
    [form |-> defaultValues,
     item |-> it,
     isRestored |-> FALSE,
     isLoading |-> InitialLoading(o),
     errors |-> [m \in Messages |-> 0],
     calls |-> [c \in {"getItem", "setItem", "removeItem"} |-> 0],
     onSave |-> [count |-> 0, arg |-> <<>>],
     onRestore |-> [count |-> 0, arg |-> <<>>],
     rejections |-> 0,
     inflight |-> <<>>,
     timeout |-> <<>>,
     orphans |-> <<>>]

Init ==
    /\ opts \in Options
    /\ phase = "rendered"
    /\ \E it \in InitialItems : w = FirstRender(FORM_DEFAULT_VALUES, it, opts)
    /\ sub = <<>>
    /\ ops = 0
    /\ restoreCalls = 0
    /\ last = Event("render", "", <<>>)

(***************************************************************************)
(* The two effects of the mount commit, in order: the automatic restore,   *)
(* then the watch subscription.                                            *)
(***************************************************************************)
AutoRestore(world, o) ==
    IF o.autoRestore THEN restoreDataFromStorage(world, o) ELSE world

\* (mutant) the subscription is made whatever autoSave says
Subscribe_Always(o) == <<o>>

Subscribe(o) == IF o.autoSave THEN <<o>> ELSE <<>>

Mount ==
    /\ phase = "rendered"
    /\ phase' = "mounted"
    /\ w' = AutoRestore(w, opts)
    /\ sub' = Subscribe(opts)
    /\ last' = Event("mount", "", <<>>)
    /\ UNCHANGED <<opts, ops, restoreCalls>>

(***************************************************************************)
(* What the user does: change a field, call save(), clear(), restore().    *)
(***************************************************************************)
Change(field, value) ==
    /\ phase = "mounted"
    /\ ops < MaxOps
    /\ w' = setValue(w, sub, field, value)
    /\ ops' = ops + 1
    /\ last' = Event("change", field, <<>>)
    /\ UNCHANGED <<opts, phase, sub, restoreCalls>>

\* (mutant) save() does nothing while a restore run is loading
Save_NotWhileLoading ==
    /\ phase = "mounted"
    /\ ops < MaxOps
    /\ w' = IF w.isLoading THEN w ELSE saveToStorage(w, w.form, opts)
    /\ ops' = ops + 1
    /\ last' = Event("save", "", <<>>)
    /\ UNCHANGED <<opts, phase, sub, restoreCalls>>

\* (mutant) save() goes through the debouncer when a debounce is set
Save_Debounced ==
    /\ phase = "mounted"
    /\ ops < MaxOps
    /\ w' = IF opts.debounce # 0 THEN debouncer(w, w.form, opts)
            ELSE saveToStorage(w, w.form, opts)
    /\ ops' = ops + 1
    /\ last' = Event("save", "", <<>>)
    /\ UNCHANGED <<opts, phase, sub, restoreCalls>>

Save ==
    /\ phase = "mounted"
    /\ ops < MaxOps
    /\ w' = saveToStorage(w, w.form, opts)
    /\ ops' = ops + 1
    /\ last' = Event("save", "", <<>>)
    /\ UNCHANGED <<opts, phase, sub, restoreCalls>>

Clear ==
    /\ phase = "mounted"
    /\ ops < MaxOps
    /\ w' = clear(w, opts)
    /\ ops' = ops + 1
    /\ last' = Event("clear", "", <<>>)
    /\ UNCHANGED <<opts, phase, sub, restoreCalls>>

Restore ==
    /\ phase = "mounted"
    /\ ops < MaxOps
    /\ w' = restoreDataFromStorage(w, opts)
    /\ ops' = ops + 1
    /\ restoreCalls' = restoreCalls + 1
    /\ last' = Event("restore", "", <<>>)
    /\ UNCHANGED <<opts, phase, sub>>

(***************************************************************************)
(* Scheduling.  Microtasks (the runs at "resume") run in the order they    *)
(* were queued, before any timer or adapter completion.  A call of an      *)
(* asynchronous adapter settles at any time, in any order, and the         *)
(* continuation of its caller runs in the same task.                       *)
(***************************************************************************)
MicrotaskPending == \E i \in 1..Len(w.inflight) : w.inflight[i].pc = "resume"

IsFirstMicrotask(i) ==
    /\ w.inflight[i].pc = "resume"
    /\ \A j \in 1..(i - 1) : w.inflight[j].pc # "resume"

Ready(i, op) ==
    /\ i \in 1..Len(w.inflight)
    /\ w.inflight[i].op = op
    /\ IsFirstMicrotask(i) \/ ~MicrotaskPending

\* the run as its continuation finds it, and the world it finds
Settled(i) ==
    LET r == w.inflight[i]
        rest == [w EXCEPT !.inflight = RemoveAt(@, i)]
    IN  IF r.pc = "resume" THEN [world |-> rest, run |-> r]
        ELSE LET s == Settle(rest, r)
             IN  [world |-> s.world,
                  run |-> [r EXCEPT !.got = s.value,
                                    !.rejected = s.rejected]]

(***************************************************************************)
(* The continuations after the await.                                      *)
(***************************************************************************)
RestoreResume(i) ==
    /\ Ready(i, "restore")
    /\ LET s == Settled(i)
       IN  /\ w' = RestoreContinue(s.world, sub, s.run.got, s.run.o,
                                   s.run.rejected)
           /\ last' = Event("restored",
                            RestorePath(s.run.got, s.run.o, s.run.rejected),
                            <<s.run>>)
    /\ UNCHANGED <<opts, phase, sub, ops, restoreCalls>>

SaveResume(i) ==
    /\ Ready(i, "save")
    /\ LET s == Settled(i)
       IN  /\ w' = SaveContinue(s.world, s.run, s.run.rejected)
           /\ last' = Event("saved", "", <<s.run>>)
    /\ UNCHANGED <<opts, phase, sub, ops, restoreCalls>>

ClearResume(i) ==
    /\ Ready(i, "clear")
    /\ LET s == Settled(i)
       IN  /\ w' = ClearContinue(s.world, s.run.rejected)
           /\ last' = Event("cleared", "", <<s.run>>)
    /\ UNCHANGED <<opts, phase, sub, ops, restoreCalls>>

(***************************************************************************)
(* The pending timer of the debouncer fires: cb(...args).                  *)
(***************************************************************************)
TimerFire ==
    /\ w.timeout # <<>>
    /\ ~MicrotaskPending
    /\ LET t == w.timeout[1]
       IN  w' = saveToStorage([w EXCEPT !.timeout = <<>>], t.args, t.o)
    /\ last' = Event("timer", "", <<>>)
    /\ UNCHANGED <<opts, phase, sub, ops, restoreCalls>>

(***************************************************************************)
(* A timer of a debouncer that is no longer subscribed fires: nothing      *)
(* cleared it.                                                             *)
(***************************************************************************)
OrphanFire(i) ==
    /\ i \in 1..Len(w.orphans)
    /\ ~MicrotaskPending
    /\ LET t == w.orphans[i]
       IN  w' = saveToStorage([w EXCEPT !.orphans = RemoveAt(@, i)],
                              t.args, t.o)
    /\ last' = Event("orphan", "", <<>>)
    /\ UNCHANGED <<opts, phase, sub, ops, restoreCalls>>

(***************************************************************************)
(* A re-render with another debounce option.  The mount effect has no      *)
(* dependencies and does not run again; the subscription effect depends on *)
(* [watch, debounce]: its cleanup unsubscribes and it subscribes again,    *)
(* with the saveToStorage of this render and a new debouncer.  The timer   *)
(* of the old debouncer stays pending.                                     *)
(***************************************************************************)
Abandon(world) ==
    [world EXCEPT !.timeout = <<>>, !.orphans = @ \o world.timeout]

\* (mutant) the unmount cancels the storage calls in flight
Unmount_CancelsRuns ==
    /\ phase = "mounted"
    /\ ops < MaxOps
    /\ phase' = "unmounted"
    /\ sub' = <<>>
    /\ w' = [Abandon(w) EXCEPT !.inflight = <<>>]
    /\ ops' = ops + 1
    /\ last' = Event("unmount", "", <<>>)
    /\ UNCHANGED <<opts, restoreCalls>>

\* (mutant) the mount effect runs again on a re-render
MountEffect_RunsAgain(world, o) ==
    IF o.autoRestore THEN restoreDataFromStorage(world, o) ELSE world

\* useEffect(() => { if (autoRestore) restoreDataFromStorage() }, []) on a
\* re-render: the dependencies are empty, the effect does not run
MountEffectOnRerender(world, o) == world

Rerender(debounce) ==
    /\ phase = "mounted"
    /\ ops < MaxOps
    /\ debounce # opts.debounce
    /\ opts' = [opts EXCEPT !.debounce = debounce]
    /\ sub' = Subscribe(opts')
    /\ w' = MountEffectOnRerender(Abandon(w), opts')
    /\ ops' = ops + 1
    /\ last' = Event("rerender", "", <<>>)
    /\ UNCHANGED <<phase, restoreCalls>>

(***************************************************************************)
(* Unmount: the cleanup of the subscription effect unsubscribes.           *)
(***************************************************************************)
Unmount ==
    /\ phase = "mounted"
    /\ ops < MaxOps
    /\ phase' = "unmounted"
    /\ sub' = <<>>
    /\ w' = Abandon(w)
    /\ ops' = ops + 1
    /\ last' = Event("unmount", "", <<>>)
    /\ UNCHANGED <<opts, restoreCalls>>

Next ==
    \/ Mount
    \/ \E f \in Fields, v \in UserValues : Change(f, v)
    \/ Save
    \/ Clear
    \/ Restore
    \/ \E i \in 1..Len(w.inflight) : RestoreResume(i)
    \/ \E i \in 1..Len(w.inflight) : SaveResume(i)
    \/ \E i \in 1..Len(w.inflight) : ClearResume(i)
    \/ TimerFire
    \/ \E i \in 1..Len(w.orphans) : OrphanFire(i)
    \/ \E d \in Debounces : Rerender(d)
    \/ Unmount

Spec == Init /\ [][Next]_vars

(***************************************************************************)
(* The event loop runs every queued continuation, and every call of the    *)
(* storage settles: weak fairness of the three continuations.  For the     *)
(* continuation of a restore run the condition is written out, with        *)
(* RestoreReady for ENABLED <<\E i : RestoreResume(i)>>_vars: the          *)
(* continuation of a run that is ready can run, and it takes the run out   *)
(* of w.inflight.                                                          *)
(***************************************************************************)
RestoreReady == \E i \in 1..Len(w.inflight) : Ready(i, "restore")

FairSpec ==
    /\ Spec
    /\ \/ []<>(~RestoreReady)
       \/ []<><<\E i \in 1..Len(w.inflight) : RestoreResume(i)>>_vars
    /\ WF_vars(\E i \in 1..Len(w.inflight) : SaveResume(i))
    /\ WF_vars(\E i \in 1..Len(w.inflight) : ClearResume(i))

(***************************************************************************)
(* Saving and restoring forms whose default values are numbers and dates:  *)
(* sessions without autoRestore and autoSave, on a storage that works and  *)
(* holds nothing at the key, in which the user calls save() and restore(). *)
(* A field with a serializer entry holds a value its functions are made    *)
(* for: a Date for toISOString, a number otherwise.                        *)
(***************************************************************************)
RoundTripProfiles ==
    Profiles \cup
        { [included |-> <<>>, excluded |-> <<>>,
           serializer |-> <<<<"b", IsoDate>>>>] }

RoundTripOptions ==
    { [autoRestore |-> FALSE, autoSave |-> FALSE, debounce |-> 0,
       included |-> p.included, excluded |-> p.excluded,
       serializer |-> p.serializer, sync |-> sy, failing |-> FALSE] :
      p \in RoundTripProfiles, sy \in BOOLEAN }

RoundTripForms ==
    { <<<<"a", va>>, <<"b", vb>>>> : va \in {0, 1}, vb \in {0, 1, SomeDate} }

MadeFor(serializer, values) ==
    \A i \in 1..Len(values) :
        Has(serializer, values[i][1]) =>
            IF Get(serializer, values[i][1]) = IsoDate
            THEN values[i][2] = SomeDate
            ELSE values[i][2] \in IntRange

RoundTripInit ==
    /\ opts \in RoundTripOptions
    /\ phase = "rendered"
    /\ \E defaultValues \in RoundTripForms :
          /\ MadeFor(opts.serializer, defaultValues)
          /\ w = FirstRender(defaultValues, <<>>, opts)
    /\ sub = <<>>
    /\ ops = 0
    /\ restoreCalls = 0
    /\ last = Event("render", "", <<>>)

RoundTripNext ==
    \/ Mount
    \/ Save
    \/ Restore
    \/ \E i \in 1..Len(w.inflight) : SaveResume(i)
    \/ \E i \in 1..Len(w.inflight) : RestoreResume(i)

RoundTripSpec == RoundTripInit /\ [][RoundTripNext]_vars

(***************************************************************************)
(* The two utilities on their inputs: sessions over every selection        *)
(* (included and excluded each undefined or any list of the keys a, b and  *)
(* c, of which no form has c) without serializer, and over every           *)
(* serializer without selection, for forms and stored records with any of  *)
(* the fields a and b in either order; the user calls save() and           *)
(* restore().                                                              *)
(***************************************************************************)
KeyLists == {<<>>} \cup {<<K>> : K \in SUBSET {"a", "b", "c"}}

\* no entry, or an entry of which each function is there or not
Entries ==
    {<<>>} \cup
        { <<[serialize |-> se, deserialize |-> de]>> :
          se \in {"none", "inc"}, de \in {"none", "dec"} }

Registries ==
    { (IF ea = <<>> THEN <<>> ELSE <<<<"a", ea[1]>>>>)
      \o (IF eb = <<>> THEN <<>> ELSE <<<<"b", eb[1]>>>>) :
      ea \in Entries, eb \in Entries }

UtilsProfiles ==
    { [included |-> i, excluded |-> e, serializer |-> <<>>] :
      i \in KeyLists, e \in KeyLists }
    \cup
    { [included |-> <<>>, excluded |-> <<>>, serializer |-> r] :
      r \in Registries }

UtilsOptions ==
    { [autoRestore |-> FALSE, autoSave |-> FALSE, debounce |-> 0,
       included |-> p.included, excluded |-> p.excluded,
       serializer |-> p.serializer, sync |-> sy, failing |-> FALSE] :
      p \in UtilsProfiles, sy \in BOOLEAN }

UtilsMappings ==
    { <<>>, <<<<"a", 1>>>>, <<<<"b", 2>>>>,
      <<<<"a", 1>>, <<"b", 2>>>>, <<<<"b", 2>>, <<"a", 1>>>> }

UtilsInit ==
    /\ opts \in UtilsOptions
    /\ phase = "rendered"
    /\ \E defaultValues \in UtilsMappings,
          it \in {<<>>} \cup {<<JsonStringify(m)>> : m \in UtilsMappings} :
          w = FirstRender(defaultValues, it, opts)
    /\ sub = <<>>
    /\ ops = 0
    /\ restoreCalls = 0
    /\ last = Event("render", "", <<>>)

UtilsNext ==
    \/ Mount
    \/ Save
    \/ Restore
    \/ \E i \in 1..Len(w.inflight) : SaveResume(i)
    \/ \E i \in 1..Len(w.inflight) : RestoreResume(i)

UtilsSpec == UtilsInit /\ [][UtilsNext]_vars

(***************************************************************************)
(* Reference definitions the properties are stated with.                   *)
(***************************************************************************)
\* the run the latest step finished
LastRun == last.run[1]

\* selection by key
Selected(o, f) ==
    /\ o.included = <<>> \/ f \in o.included[1]
    /\ o.excluded = <<>> \/ f \notin o.excluded[1]

\* the function a field has for a direction ("id": no entry, pass through)
FunctionOf(o, f, direction) ==
    IF ~Has(o.serializer, f) THEN "id"
    ELSE IF direction = "restore" THEN Get(o.serializer, f).deserialize
    ELSE Get(o.serializer, f).serialize

\* select, then transform, entry by entry, in the order of values
Reference(values, o, direction) ==
    LET kept == SelectSeq(values,
                          LAMBDA e : /\ Selected(o, e[1])
                                     /\ FunctionOf(o, e[1], direction) # "none")
    IN  [i \in 1..Len(kept) |->
            <<kept[i][1], Call(FunctionOf(o, kept[i][1], direction),
                               kept[i][2])>>]

\* some function of a selected key of values throws
SomeThrows(values, o, direction) ==
    \E f \in Keys(values) :
        Selected(o, f) /\ FunctionOf(o, f, direction) = "throw"

\* the restore run of the latest step got a record that is valid JSON
GotValidJson ==
    /\ last.op = "restored"
    /\ ~LastRun.o.failing
    /\ LastRun.got # <<>>
    /\ JsonParse(LastRun.got[1]).ok

\* ... and the record is an object and no deserialize function throws
GotRestorableObject ==
    /\ GotValidJson
    /\ ~JsonParse(LastRun.got[1]).isNull
    /\ ~SomeThrows(JsonParse(LastRun.got[1]).val, LastRun.o, "restore")

RestoredAsRecorded ==
    LET expected == Reference(JsonParse(LastRun.got[1]).val, LastRun.o,
                              "restore")
    IN  /\ \A i \in 1..Len(expected) :
              /\ Has(w.form, expected[i][1])
              /\ Get(w.form, expected[i][1]) = expected[i][2]
        /\ w.isRestored
        /\ ~w.isLoading

RecordKeys(r) ==
    IF r.got = <<>> \/ ~JsonParse(r.got[1]).ok THEN {}
    ELSE Keys(JsonParse(r.got[1]).val)

\* C2: a restore run leaves every form field that is excluded, not included
\* when included is given, or absent from the stored record at the value it
\* had before the run.
C2_RestoreFrame ==
    [][last'.op = "restored" =>
          \A f \in Fields :
              (~Selected(last'.run[1].o, f) \/ f \notin RecordKeys(last'.run[1]))
                  => Get(w'.form, f) = Get(w.form, f)]_vars

\* a restore run has applied a record holding an unselected field, wrote
\* another field and left the unselected one at its default
C2_Witness ==
    /\ last.op = "restored"
    /\ last.path = "applied"
    /\ \E f \in RecordKeys(LastRun), g \in RecordKeys(LastRun) :
          /\ ~Selected(LastRun.o, f)
          /\ Get(w.form, f) = 0
          /\ Get(w.form, g) # 0
\* the subscription saves directly into a synchronous store that works
DirectSyncSubscription ==
    /\ sub # <<>>
    /\ sub[1].debounce = 0
    /\ sub[1].sync
    /\ ~sub[1].failing

\* the latest step changed form values: the user did, or a restore run
\* wrote at least one field
FormJustChanged ==
    \/ last.op = "change"
    \/ /\ last.op = "restored"
       /\ last.path = "applied"
       /\ Reference(JsonParse(LastRun.got[1]).val, LastRun.o, "restore") # <<>>

RecordIsSnapshot ==
    w.item = <<JsonStringify(Reference(w.form, sub[1], "serialize"))>>

C4_OneAutomaticRestore ==
    /\ [](w.calls["getItem"] =
             IF phase = "rendered" THEN 0
             ELSE restoreCalls + (IF opts.autoRestore THEN 1 ELSE 0))
    /\ [][(last'.op = "mount" /\ opts.autoRestore) =>
             /\ Len(w'.inflight) = 1
             /\ w'.inflight[1].op = "restore"
             /\ w'.form = w.form]_vars
    /\ [][w'.form # w.form =>
             \/ last'.op = "change"
             \/ last'.op = "restored" /\ w.calls["getItem"] > 0]_vars

\* a session with autoRestore after two user operations, the latest a
\* re-render with another debounce: still the one getItem of the mount
C4_Witness ==
    /\ opts.autoRestore
    /\ last.op = "rerender"
    /\ ops = 2
    /\ restoreCalls = 0
    /\ w.calls["getItem"] = 1
\* the subscription saves through a debouncer
DebouncedSubscription == sub # <<>> /\ sub[1].debounce # 0

\* the run a step has started: the newest in flight
NewestRun(world) == world.inflight[Len(world.inflight)]

\* a step has called setItem once, with the encoding of
\* serialize(select(values)) under the options o
SetIssuedFor(values, o) ==
    /\ w'.calls["setItem"] = w.calls["setItem"] + 1
    /\ Len(w'.inflight) = Len(w.inflight) + 1
    /\ NewestRun(w').op = "save"
    /\ NewestRun(w').text = JsonStringify(Reference(values, o, "serialize"))

\* C5: with autoSave and a debounce, a form change calls no setItem and no
\* onSave and leaves one pending timer, holding the snapshot of this change
\* (the timer of the change before is gone); setItem is called only when
\* the timer fires (or by save()), and the firing runs the save pipeline
\* once, on the snapshot of the last change.
C5_DebouncedSave ==
    /\ [](w.timeout # <<>> =>
             /\ DebouncedSubscription
             /\ w.timeout[1].args = w.form
             /\ w.timeout[1].o = sub[1])
    /\ [][(DebouncedSubscription /\ last'.op = "change") =>
             /\ w'.timeout # <<>>
             /\ w'.calls = w.calls
             /\ w'.onSave = w.onSave
             /\ w'.item = w.item
             /\ w'.inflight = w.inflight]_vars
    /\ [][(/\ DebouncedSubscription
           /\ w.orphans = <<>>
           /\ w'.calls["setItem"] # w.calls["setItem"]) =>
             last'.op \in {"timer", "save"}]_vars
    /\ [][w'.onSave # w.onSave => last'.op = "saved"]_vars
    /\ [][last'.op = "timer" =>
             /\ w'.timeout = <<>>
             /\ IF SomeThrows(w.form, sub[1], "serialize")
                THEN /\ w'.calls = w.calls
                     /\ w'.inflight = w.inflight
                     /\ w'.errors[SaveError] = w.errors[SaveError] + 1
                ELSE SetIssuedFor(w.form, sub[1])]_vars

\* two changes, then the timer: one setItem, with both changes
C5_Witness ==
    /\ last.op = "timer"
    /\ ops = 2
    /\ ~opts.autoRestore
    /\ \A f \in Fields : Get(w.form, f) # 0
    /\ w.calls["setItem"] = 1
    /\ NewestRun(w).text = JsonStringify(w.form)

\* save() has issued the one setItem for the current form values
SaveSetsOnce == SetIssuedFor(w.form, opts)

C7_NeverRejects == w.rejections = 0

\* with a failing storage: a restore run has failed, and a later clear()
\* has failed too, and has resolved
C7_Witness ==
    /\ last.op = "cleared"
    /\ LastRun.o.failing
    /\ w.errors[ClearError] > 0
    /\ w.errors[RestoreError] > 0

\* the run read, from a storage that works, a record that is no valid JSON
NotValidJson(r) ==
    /\ ~r.o.failing
    /\ r.got # <<>>
    /\ ~JsonParse(r.got[1]).ok

\* C8 as stated: a restore run that reads a record that is not valid JSON
\* leaves isRestored and every form field as they were, does not call
\* onRestore, logs one restore failure and ends with isLoading false.
C8_AsStated ==
    [][(last'.op = "restored" /\ NotValidJson(last'.run[1])) =>
          /\ w'.isRestored = w.isRestored
          /\ w'.form = w.form
          /\ w'.onRestore = w.onRestore
          /\ w'.errors[RestoreError] = w.errors[RestoreError] + 1
          /\ ~w'.isLoading]_vars

\* the run read nothing from a storage that works
FoundNoRecord(r) == ~r.o.failing /\ r.got = <<>>

\* C9: a restore run that finds no record sets isLoading to false and
\* changes nothing else: isRestored, the form, the callbacks, the record,
\* the log, the timers and the other runs are as before.
C9_AbsentFrame ==
    [][(last'.op = "restored" /\ FoundNoRecord(last'.run[1])) =>
          /\ ~w'.isLoading
          /\ Len(w'.inflight) = Len(w.inflight) - 1
          /\ [w' EXCEPT !.isLoading = w.isLoading, !.inflight = w.inflight]
                 = w]_vars

\* a record was restored, then cleared; the next restore run found nothing
\* and isRestored is still true
C9_Witness ==
    /\ last.op = "restored"
    /\ FoundNoRecord(LastRun)
    /\ w.isRestored
    /\ w.item = <<>>

\* restore runs that have not finished
RestoresInFlight ==
    {i \in 1..Len(w.inflight) : w.inflight[i].op = "restore"}

\* C10: every restore run finishes, and the step that finishes it leaves
\* isLoading false on every path; once no restore run is in flight
\* isLoading is false.
C10_LoadingEnds ==
    /\ [][last'.op = "restored" => ~w'.isLoading]_vars
    /\ (RestoresInFlight # {}) ~> (RestoresInFlight = {} /\ ~w.isLoading)

\* a run whose deserialize function threw has finished
C10_Witness ==
    /\ last.op = "restored"
    /\ last.path = "transformError"
    /\ RestoresInFlight = {}
    /\ ~w.isLoading

\* C11 as stated: in every state, isLoading is true only while a restore
\* run is in flight (started and not finished).
C11_AsStated == w.isLoading => RestoresInFlight # {}

\* C11, amended: the same in every state after the mount commit; before it
\* (the first render) isLoading is autoRestore and no run has started.
C11_LoadingOnlyInFlight ==
    IF phase = "rendered"
    THEN w.isLoading = opts.autoRestore /\ RestoresInFlight = {}
    ELSE w.isLoading => RestoresInFlight # {}

\* restore() was called in a session without autoRestore: its run is in
\* flight and isLoading is true
C11_Witness ==
    /\ ~opts.autoRestore
    /\ last.op = "restore"
    /\ w.isLoading
    /\ RestoresInFlight # {}

\* C12: isRestored starts false; the only step that sets it is the
\* completion of a restore run that applied a record it read; no step of
\* the session (change, save, clear, a later restore run that finds nothing
\* or fails, re-render, unmount) resets it.
C12_RestoredLatch ==
    /\ [](phase = "rendered" => ~w.isRestored)
    /\ [][w.isRestored => w'.isRestored]_vars
    /\ [][(~w.isRestored /\ w'.isRestored) =>
             /\ last'.op = "restored"
             /\ last'.path = "applied"
             /\ last'.run[1].got # <<>>]_vars

\* a record was restored and then removed by clear(): isRestored is still
\* true
C12_Witness ==
    /\ w.isRestored
    /\ last.op = "cleared"
    /\ ~LastRun.o.failing
    /\ w.item = <<>>

\* C13 as stated: onSave is called only by the completion of a save run,
\* and not by one whose storage.setItem threw or was rejected.
C13_AsStated ==
    [][w'.onSave # w.onSave =>
          /\ last'.op = "saved"
          /\ ~last'.run[1].o.failing]_vars

\* C14 as stated: a restore run that applies a record calls onRestore
\* exactly once, with the selected and deserialized mapping: the values the
\* run wrote into the form.
C14_AsStated ==
    [][(last'.op = "restored" /\ last'.path = "applied") =>
          /\ w'.onRestore.count = w.onRestore.count + 1
          /\ w'.onRestore.arg =
                 Reference(JsonParse(last'.run[1].got[1]).val,
                           last'.run[1].o, "restore")]_vars

\* the restore diagnostics a step has added to the log, and nothing else
LoggedRestoreErrors(n) ==
    w'.errors = [w.errors EXCEPT ![RestoreError] = @ + n]

\* C15: a restore run whose storage.getItem fails continues as a run that
\* found nothing (the path "absent"): its completion sets isLoading to
\* false and leaves the form, isRestored, onRestore, the record and the
\* timers as they were; the run logs one restore diagnostic, when getItem
\* fails (during the call for a synchronous storage, at the rejection for
\* an asynchronous one), and no other.
C15_FailedGetIsAbsence ==
    /\ [][(last'.op = "restored" /\ last'.run[1].o.failing) =>
             /\ last'.path = "absent"
             /\ last'.run[1].got = <<>>
             /\ ~w'.isLoading
             /\ Len(w'.inflight) = Len(w.inflight) - 1
             /\ LoggedRestoreErrors(IF last'.run[1].o.sync THEN 0 ELSE 1)
             /\ [w' EXCEPT !.isLoading = w.isLoading,
                           !.inflight = w.inflight,
                           !.errors = w.errors] = w]_vars
    /\ [][(last'.op = "restore" /\ opts.failing) =>
             LoggedRestoreErrors(IF opts.sync THEN 1 ELSE 0)]_vars

\* the storage holds an object, getItem failed: the run has finished with
\* one diagnostic, the form at its defaults and isRestored false
C15_Witness ==
    /\ last.op = "restored"
    /\ LastRun.o.failing
    /\ w.item = <<JsonStringify(<<<<"a", 2>>, <<"b", 2>>>>)>>
    /\ w.errors[RestoreError] = 1
    /\ w.form = FORM_DEFAULT_VALUES
    /\ ~w.isRestored
    /\ ~w.isLoading

\* the calls of a storage operation that have not settled
Outstanding(pc) ==
    Cardinality({i \in 1..Len(w.inflight) : w.inflight[i].pc = pc})

\* C16: with a failing storage, each setItem, getItem and removeItem that
\* has failed has logged exactly one diagnostic, with the message of its
\* own operation: the count of each message is the count of the failed
\* calls of its operation; the message of saveToStorage's own catch is
\* logged in no step that calls the storage or settles a call.
C16_OneDiagnosticPerFailure ==
    /\ [](opts.failing =>
             /\ w.errors[SaveStorageError] =
                    w.calls["setItem"] - Outstanding("set")
             /\ w.errors[RestoreError] =
                    w.calls["getItem"] - Outstanding("get")
             /\ w.errors[ClearError] =
                    w.calls["removeItem"] - Outstanding("remove"))
    /\ [][(opts.failing /\ w'.errors[SaveError] # w.errors[SaveError]) =>
             /\ w'.calls = w.calls
             /\ w'.inflight = w.inflight]_vars

\* a failing storage: the automatic restore, a save() and a clear() have
\* failed, each with its one diagnostic
C16_Witness ==
    /\ opts.failing
    /\ w.inflight = <<>>
    /\ w.errors[SaveStorageError] = 1
    /\ w.errors[RestoreError] = 1
    /\ w.errors[ClearError] = 1
    /\ w.errors[SaveError] = 0

\* the run read a JSON object of which a selected field has a deserialize
\* function that throws
DeserializeThrows(r) ==
    /\ ~r.o.failing
    /\ r.got # <<>>
    /\ JsonParse(r.got[1]).ok
    /\ ~JsonParse(r.got[1]).isNull
    /\ SomeThrows(JsonParse(r.got[1]).val, r.o, "restore")

\* the state is as before, but for one more diagnostic with message msg
OnlyLogged(before, after, msg) ==
    after = [before EXCEPT !.errors[msg] = @ + 1]

\* C17: a save run in which a serialize function throws (started by
\* save(), by the timer of the debouncer or by a change under a
\* subscription without debounce) calls no setItem, leaves the record and
\* onSave as they were and logs one save diagnostic; a restore run in
\* which a deserialize function throws writes no form field, leaves
\* isRestored and onRestore as they were, sets isLoading to false and logs
\* one restore diagnostic; nothing is rejected.
C17_ThrowingTransformAborts ==
    /\ [][(last'.op = "save" /\ SomeThrows(w.form, opts, "serialize")) =>
             OnlyLogged(w, w', SaveError)]_vars
    /\ [][(last'.op = "timer"
           /\ SomeThrows(w.timeout[1].args, w.timeout[1].o, "serialize")) =>
             OnlyLogged([w EXCEPT !.timeout = <<>>], w', SaveError)]_vars
    /\ [][(/\ last'.op = "change"
           /\ sub # <<>>
           /\ sub[1].debounce = 0
           /\ SomeThrows(w'.form, sub[1], "serialize")) =>
             OnlyLogged([w EXCEPT !.form = w'.form], w', SaveError)]_vars
    /\ [][(last'.op = "restored" /\ DeserializeThrows(last'.run[1])) =>
             /\ ~w'.isLoading
             /\ Len(w'.inflight) = Len(w.inflight) - 1
             /\ OnlyLogged([w EXCEPT !.isLoading = w'.isLoading,
                                     !.inflight = w'.inflight],
                           w', RestoreError)]_vars
    /\ [](w.rejections = 0)

\* the automatic restore was aborted by a throwing deserialize function of
\* b and wrote nothing, a not either; then save() was aborted by the
\* throwing serialize function, before setItem
C17_Witness ==
    /\ last.op = "save"
    /\ ~opts.failing
    /\ w.errors[RestoreError] = 1
    /\ w.errors[SaveError] = 1
    /\ w.calls["setItem"] = 0
    /\ w.form = FORM_DEFAULT_VALUES
    /\ w.item = <<JsonStringify(<<<<"a", 2>>, <<"b", 2>>>>)>>
    /\ ~w.isRestored
    /\ ~w.isLoading

\* what removeItem does to the record and the log when it takes effect:
\* the record is removed, or, when the storage fails, the record stays and
\* one clear diagnostic is logged
Removed(before, after, o) ==
    IF o.failing
    THEN /\ after.item = before.item
         /\ after.errors = [before.errors EXCEPT ![ClearError] = @ + 1]
    ELSE /\ after.item = <<>>
         /\ after.errors = before.errors

\* the record and the log are as before
NotRemoved(before, after) ==
    after.item = before.item /\ after.errors = before.errors

\* C18: clear() calls removeItem once; when the call takes effect (during
\* clear() for a synchronous storage, when it settles for an asynchronous
\* one) the record at the key is removed, or left as it was with one clear
\* diagnostic when the storage fails; neither clear() nor its completion
\* changes isRestored, isLoading, the form, the callbacks or the timers.
C18_ClearFrame ==
    /\ [][last'.op = "clear" =>
             /\ w'.calls = [w.calls EXCEPT !["removeItem"] = @ + 1]
             /\ Len(w'.inflight) = Len(w.inflight) + 1
             /\ NewestRun(w').op = "clear"
             /\ IF opts.sync THEN Removed(w, w', opts) ELSE NotRemoved(w, w')
             /\ [w' EXCEPT !.calls = w.calls, !.inflight = w.inflight,
                           !.item = w.item, !.errors = w.errors] = w]_vars
    /\ [][last'.op = "cleared" =>
             /\ Len(w'.inflight) = Len(w.inflight) - 1
             /\ IF last'.run[1].o.sync THEN NotRemoved(w, w')
                ELSE Removed(w, w', last'.run[1].o)
             /\ [w' EXCEPT !.inflight = w.inflight,
                           !.item = w.item, !.errors = w.errors] = w]_vars

\* after a form change, clear() on an asynchronous storage has resolved:
\* the record is absent, the form keeps the changed value
C18_Witness ==
    /\ last.op = "cleared"
    /\ ~LastRun.o.failing
    /\ ~LastRun.o.sync
    /\ w.item = <<>>
    /\ w.form # FORM_DEFAULT_VALUES
    /\ w.calls["removeItem"] = 1

\* save() has called setItem during the call, with the encoding of the
\* form values of that moment (written at once by a synchronous storage
\* that works), and has left the timer of the debouncer as it was
SavedAtOnce ==
    /\ SetIssuedFor(w.form, opts)
    /\ (opts.sync /\ ~opts.failing) => w'.item = <<NewestRun(w').text>>
    /\ w'.timeout = w.timeout
    /\ w'.orphans = w.orphans

MutualInverses(values, o) ==
    \A i \in 1..Len(values) :
        (Selected(o, values[i][1]) /\ Has(o.serializer, values[i][1])) =>
            LET entry == Get(o.serializer, values[i][1])
            IN  /\ entry.serialize \notin {"none", "throw"}
                /\ entry.deserialize \notin {"none", "throw"}
                /\ Call(entry.deserialize,
                        Call(entry.serialize, values[i][2])) = values[i][2]

\* the run read, from a storage that works, the record a save of values
\* writes
ReadSavedForm(r, values) ==
    /\ ~r.o.failing
    /\ r.got = <<JsonStringify(Reference(values, r.o, "serialize"))>>

\* JSON.parse(JSON.stringify(v)) is v for every value v the save writes
JsonFaithful(values, o) ==
    LET serialized == Reference(values, o, "serialize")
    IN  \A i \in 1..Len(serialized) :
            ValueOf(StringifyValue(serialized[i][2])) = serialized[i][2]

\* the restore run just finished has left every form field at its value
FormAsSaved == w'.form = w.form /\ w'.isRestored

\* C20 as stated: with serialize and deserialize inverses of each other for
\* every field that has a serializer entry, a restore run that reads the
\* record save() wrote for the current form values leaves every selected
\* form field at its value.
C20_AsStated ==
    [][(/\ last'.op = "restored"
        /\ MutualInverses(w.form, last'.run[1].o)
        /\ ReadSavedForm(last'.run[1], w.form)) => FormAsSaved]_vars

\* C20, amended: the same, when every value the save writes is one that
\* JSON.parse(JSON.stringify(v)) gives back (a Date in a field without
\* serializer entry is not: it comes back as a string).
C20_RoundTrip ==
    [][(/\ last'.op = "restored"
        /\ MutualInverses(w.form, last'.run[1].o)
        /\ JsonFaithful(w.form, last'.run[1].o)
        /\ ReadSavedForm(last'.run[1], w.form)) => FormAsSaved]_vars

\* b holds a Date and has toISOString / new Date as serializer: save()
\* wrote the string, restore() read it and b holds the Date again
C20_Witness ==
    /\ last.op = "restored"
    /\ last.path = "applied"
    /\ LastRun.o.serializer = <<<<"b", IsoDate>>>>
    /\ ReadSavedForm(LastRun, w.form)
    /\ w.calls["setItem"] = 1
    /\ w.onRestore.arg = <<<<"a", Get(w.form, "a")>>, <<"b", SomeDateString>>>>
    /\ Get(w.form, "b") = SomeDate

\* the entries of values whose key is in the list keys, in their order
Only(values, keys) == SelectSeq(values, LAMBDA e : e[1] \in keys)

\* the entries of values whose key is not in the list keys, in their order
Without(values, keys) == SelectSeq(values, LAMBDA e : e[1] \notin keys)

\* not both of included and excluded are given
OneListAtMost(o) == o.included = <<>> \/ o.excluded = <<>>

\* the selection of C21, for options with one list at most
SelectionReference(values, o) ==
    IF o.included # <<>> THEN Only(values, o.included[1])
    ELSE IF o.excluded # <<>> THEN Without(values, o.excluded[1])
    ELSE values

\* C21: with only included = K the selection (what save() keeps of the
\* form values, what a restore run keeps of the record) is the entries
\* whose key is in K, in their order; with only excluded = K those whose
\* key is not in K; with neither, all; keys of K the mapping lacks change
\* nothing; the form values are not modified by save().
C21_SelectionIsReference ==
    /\ [][(last'.op = "save" /\ OneListAtMost(opts)) =>
             /\ NewestRun(w').vals = SelectionReference(w.form, opts)
             /\ w'.form = w.form]_vars
    /\ [][(/\ last'.op = "restored"
           /\ last'.path = "applied"
           /\ OneListAtMost(last'.run[1].o)) =>
             w'.onRestore.arg =
                 SelectionReference(JsonParse(last'.run[1].got[1]).val,
                                    last'.run[1].o)]_vars

\* excluded = [a, c] and a form with b before a: save() keeps b alone
C21_Witness ==
    /\ last.op = "save"
    /\ opts.included = <<>>
    /\ opts.excluded = <<{"a", "c"}>>
    /\ w.form = <<<<"b", 2>>, <<"a", 1>>>>
    /\ NewestRun(w).vals = <<<<"b", 2>>>>

\* the function the registry has for a key in a direction: "id" without
\* entry, "none" when the entry lacks the function
FunctionFor(registry, key, restoring) ==
    IF ~Has(registry, key) THEN "id"
    ELSE IF restoring THEN Get(registry, key).deserialize
    ELSE Get(registry, key).serialize

\* the transform of C22: keys whose entry lacks the function are omitted,
\* the others map to the function applied to their value (the value itself
\* without entry)
TransformReference(values, registry, restoring) ==
    LET kept == SelectSeq(values,
                          LAMBDA e : FunctionFor(registry, e[1], restoring)
                                         # "none")
    IN  [i \in 1..Len(kept) |->
            <<kept[i][1],
              Call(FunctionFor(registry, kept[i][1], restoring), kept[i][2])>>]

\* form.setValue for each entry of values, in their order
RECURSIVE WrittenInto(_, _, _)
WrittenInto(form, values, i) ==
    IF i > Len(values) THEN form
    ELSE WrittenInto(Put(form, values[i][1], values[i][2]), values, i + 1)

\* no function of the registry throws
NoneThrows(registry) ==
    \A i \in 1..Len(registry) :
        /\ registry[i][2].serialize # "throw"
        /\ registry[i][2].deserialize # "throw"

\* C22: the record save() writes is the encoding of the transform of the
\* selected values in the direction serialize, and the fields a restore run
\* writes are the transform of the selected record in the direction
\* deserialize, where the transform is the reference: no entry, the value
\* passes; an entry without the function of the direction, the key is
\* omitted; otherwise the function applied.  With an empty registry the
\* result is the input.
C22_TransformIsReference ==
    /\ [][(last'.op = "save" /\ NoneThrows(opts.serializer)) =>
             /\ NewestRun(w').text =
                    JsonStringify(TransformReference(NewestRun(w').vals,
                                                     opts.serializer, FALSE))
             /\ opts.serializer = <<>> =>
                    NewestRun(w').text = JsonStringify(NewestRun(w').vals)]_vars
    /\ [][(/\ last'.op = "restored"
           /\ last'.path = "applied"
           /\ sub = <<>>) =>
             /\ w'.form =
                    WrittenInto(w.form,
                                TransformReference(w'.onRestore.arg,
                                                   last'.run[1].o.serializer,
                                                   TRUE), 1)
             /\ last'.run[1].o.serializer = <<>> =>
                    w'.form = WrittenInto(w.form, w'.onRestore.arg, 1)]_vars

\* a has serialize alone, b has both functions: the restore run has
\* omitted a and written b deserialized, into a form that had no b
C22_Witness ==
    /\ last.op = "restored"
    /\ last.path = "applied"
    /\ LastRun.o.serializer =
           <<<<"a", [serialize |-> "inc", deserialize |-> "none"]>>,
             <<"b", [serialize |-> "inc", deserialize |-> "dec"]>>>>
    /\ LastRun.got = <<JsonStringify(<<<<"b", 2>>, <<"a", 1>>>>)>>
    /\ w.form = <<<<"a", 1>>, <<"b", 1>>>>
    /\ w.calls["setItem"] = 0

\* C24 as stated: when included and excluded are both given, the selection
\* of save() and of a restore run is the entries whose key is in included,
\* whatever excluded holds.
C24_AsStated ==
    /\ [][(last'.op = "save" /\ ~OneListAtMost(opts)) =>
             NewestRun(w').vals = Only(w.form, opts.included[1])]_vars
    /\ [][(/\ last'.op = "restored"
           /\ last'.path = "applied"
           /\ ~OneListAtMost(last'.run[1].o)) =>
             w'.onRestore.arg =
                 Only(JsonParse(last'.run[1].got[1]).val,
                      last'.run[1].o.included[1])]_vars

\* C23 as stated: once the session has ended (unmount) no set reaches the
\* adapter: the pending timer has been destroyed, and a set is issued only
\* when save() is called, a field changes or a timer fires.
C23_AsStated ==
    [][phase = "unmounted" => w'.calls["setItem"] = w.calls["setItem"]]_vars

(***************************************************************************)
(* Sessions with a debounced subscription, from the state in which the     *)
(* mount commit has run and a first change of field a has scheduled the    *)
(* debounced save: the changes, re-renders with another debounce, timers   *)
(* and continuations that follow.  ops counts the operations after that    *)
(* state.                                                                  *)
(***************************************************************************)
DebouncedOptions ==
    {o \in Options : o.autoSave /\ o.debounce # 0 /\ ~o.failing}

\* the mount commit, then a change of field a
ChangedOnce(it, o) ==
    setValue(AutoRestore(FirstRender(FORM_DEFAULT_VALUES, it, o), o),
             Subscribe(o), "a", 1)

DebounceInit ==
    /\ opts \in DebouncedOptions
    /\ phase = "mounted"
    /\ \E it \in InitialItems : w = ChangedOnce(it, opts)
    /\ sub = Subscribe(opts)
    /\ ops = 0
    /\ restoreCalls = 0
    /\ last = Event("change", "a", <<>>)

DebounceNext ==
    \/ \E f \in Fields, v \in UserValues : Change(f, v)
    \/ \E d \in Debounces : Rerender(d)
    \/ TimerFire
    \/ \E i \in 1..Len(w.orphans) : OrphanFire(i)
    \/ \E i \in 1..Len(w.inflight) : SaveResume(i)
    \/ \E i \in 1..Len(w.inflight) : RestoreResume(i)
    \/ Unmount

DebounceSpec == DebounceInit /\ [][DebounceNext]_vars

\* the debounced saves scheduled and not yet executed
PendingSaves == Len(w.timeout) + Len(w.orphans)

\* C28 as stated: in every state of a session at most one debounced save
\* is pending, also after the debounce delay has changed.
C28_AsStated == phase = "mounted" => PendingSaves <= 1

(***************************************************************************)
(* Sessions whose options change from one render to the next.  The         *)
(* subscription effect has the dependencies [watch, debounce], and watch   *)
(* is the same function in every render of a form: the effect runs again   *)
(* (cleanup, then a subscription with the saveToStorage of this render)    *)
(* only when debounce has changed.  saveToStorage and storageAdapter are   *)
(* memoised on everything they read, so that save() and clear() of a       *)
(* render use its options.                                                 *)
(***************************************************************************)
EffectDepsChanged(before, after) == before.debounce # after.debounce

\* (mutant) the subscription effect runs again in every render
SubscriptionEffect_EveryRender(s, before, after) == Subscribe(after)

SubscriptionEffect(s, before, after) ==
    IF EffectDepsChanged(before, after) THEN Subscribe(after) ELSE s

\* the options the model lets a session have: no automatic restore, and
\* one kind of storage for the session
StaleOptions == {o \in Options : ~o.autoRestore}

RerenderWith(o) ==
    /\ phase = "mounted"
    /\ ops < MaxOps
    /\ o \in StaleOptions
    /\ o # opts
    /\ o.sync = opts.sync
    /\ opts' = o
    /\ sub' = SubscriptionEffect(sub, opts, o)
    /\ w' = MountEffectOnRerender(
                IF EffectDepsChanged(opts, o) THEN Abandon(w) ELSE w, o)
    /\ ops' = ops + 1
    /\ last' = Event("rerender", "", <<>>)
    /\ UNCHANGED <<phase, restoreCalls>>

StaleInit ==
    /\ opts \in StaleOptions
    /\ phase = "rendered"
    /\ w = FirstRender(FORM_DEFAULT_VALUES, <<>>, opts)
    /\ sub = <<>>
    /\ ops = 0
    /\ restoreCalls = 0
    /\ last = Event("render", "", <<>>)

StaleNext ==
    \/ Mount
    \/ \E f \in Fields, v \in UserValues : Change(f, v)
    \/ Save
    \/ Clear
    \/ \E o \in StaleOptions : RerenderWith(o)
    \/ \E i \in 1..Len(w.inflight) : SaveResume(i)
    \/ \E i \in 1..Len(w.inflight) : ClearResume(i)
    \/ TimerFire
    \/ \E i \in 1..Len(w.orphans) : OrphanFire(i)

StaleSpec == StaleInit /\ [][StaleNext]_vars

\* a step has started a save run of the pipeline of the options o on the
\* values: its selection, its record, its storage
SaveRunOf(values, o) ==
    IF SomeThrows(values, o, "serialize")
    THEN /\ w'.calls = w.calls
         /\ w'.inflight = w.inflight
    ELSE /\ SetIssuedFor(values, o)
         /\ NewestRun(w').o = o
         /\ NewestRun(w').vals = SelectionReference(values, o)

RestoreRuns(world) == SelectSeq(world.inflight, LAMBDA r : r.op = "restore")

\* a step in which save() is called, or a field changes under a
\* subscription without debounce, while isLoading is true and a restore run
\* is in flight
SaveWhileLoading ==
    /\ w.isLoading
    /\ RestoresInFlight # {}
    /\ \/ last'.op = "save"
       \/ last'.op = "change" /\ sub # <<>> /\ sub[1].debounce = 0

\* C26: a save() or a form change (subscription without debounce) that
\* happens while isLoading is true and a restore run is in flight calls
\* setItem in that very step, with the form values of the step, and leaves
\* the restore runs in flight as they were; every such restore run finishes
\* later, and a run that finishes having read a restorable record has
\* applied that record, whichever of the two storage calls completed first.
C26_SaveNotSerialized ==
    /\ [][(SaveWhileLoading /\ ~SomeThrows(w'.form, opts, "serialize")) =>
             /\ SetIssuedFor(w'.form, opts)
             /\ RestoreRuns(w') = RestoreRuns(w)
             /\ w'.isLoading]_vars
    /\ [][last'.op = "restored" =>
             /\ Len(RestoreRuns(w')) = Len(RestoreRuns(w)) - 1
             /\ (GotRestorableObject => RestoredAsRecorded)']_vars
    /\ (w.isLoading /\ RestoresInFlight # {} /\ last.op \in {"save", "change"})
           ~> (RestoresInFlight = {})

\* an asynchronous storage: the automatic restore was in flight when save()
\* was called; the set completed first, then the get, which read the record
\* just saved, and the restore run applied it
C26_Witness ==
    /\ last.op = "restored"
    /\ last.path = "applied"
    /\ ~opts.sync
    /\ opts.autoRestore
    /\ ~opts.autoSave
    /\ restoreCalls = 0
    /\ w.calls["getItem"] = 1
    /\ w.calls["setItem"] = 1
    /\ w.onSave.count = 1
    /\ w.onRestore.count = 1
    /\ w.item = LastRun.got
    /\ w.isRestored

\* C27: the unmount leaves the storage calls in flight as they are, and
\* each of them completes afterwards.  The completion of a restore run
\* after the unmount sets isLoading false and, when it read a restorable
\* record, writes the form fields, sets isRestored and calls onRestore; the
\* completion of a save run after the unmount calls onSave.
C27_CompletionsOutliveSession ==
    /\ [][last'.op = "unmount" => w'.inflight = w.inflight]_vars
    /\ [][(phase = "unmounted" /\ last'.op = "restored") =>
             /\ ~w'.isLoading
             /\ (GotRestorableObject => RestoredAsRecorded)'
             /\ last'.path = "applied" =>
                    w'.onRestore.count = w.onRestore.count + 1]_vars
    /\ [][(phase = "unmounted" /\ last'.op = "saved") =>
             w'.onSave.count = w.onSave.count + 1]_vars
    /\ (phase = "unmounted" /\ w.inflight # <<>>) ~> (w.inflight = <<>>)

\* an asynchronous storage: the session was unmounted while the get of the
\* automatic restore was outstanding, and the run has applied the record
C27_Witness ==
    /\ phase = "unmounted"
    /\ last.op = "restored"
    /\ last.path = "applied"
    /\ ~opts.sync
    /\ ops = 1
    /\ w.form # FORM_DEFAULT_VALUES
    /\ w.isRestored
    /\ ~w.isLoading
    /\ w.onRestore.count = 1

\* C29 as stated: in every state in which a restore run is in flight
\* isLoading is true, also when restore() was called while an earlier run
\* had not finished.
C29_AsStated == RestoresInFlight # {} => w.isLoading

\* the automatic restore run has started and no restore run has finished:
\* it is the first run in flight
AutomaticRunOutstanding ==
    /\ opts.autoRestore
    /\ phase # "rendered"
    /\ Len(RestoreRuns(w)) = 1 + restoreCalls
    /\ w.inflight[1].op = "restore"

\* C30 as stated: in the first render isLoading equals autoRestore; with
\* autoRestore, isLoading stays true until the automatic restore run
\* finishes, so that isLoading = false with isRestored = false is not seen
\* while that run is outstanding; without autoRestore isLoading is false
\* until restore() is called.
C30_AsStated ==
    /\ [](phase = "rendered" => w.isLoading = opts.autoRestore)
    /\ []((~opts.autoRestore /\ restoreCalls = 0) => ~w.isLoading)
    /\ [](AutomaticRunOutstanding => w.isLoading)
    /\ [][(/\ AutomaticRunOutstanding
           /\ \E i \in 2..Len(w.inflight) : RestoreResume(i)) =>
             (w'.isLoading \/ w'.isRestored)]_vars

\* clear() has just resolved against a non-failing storage, the record is
\* absent and no save run is in flight
ClearedAndQuiet ==
    /\ last.op = "cleared"
    /\ ~LastRun.o.failing
    /\ w.item = <<>>
    /\ \A i \in 1..Len(w.inflight) : w.inflight[i].op # "save"

\* C31 as stated: once clear() has resolved against a non-failing storage
\* the record stays absent until a field changes (by the user or by a
\* restore run) or save() is called: the timer of a debounced save that was
\* scheduled before clear() does not write the record again.
C31_AsStated ==
    [][ClearedAndQuiet =>
          \/ w'.item = <<>>
          \/ last'.op \in {"change", "save", "restored"}]_vars

\* a live session with autoSave on a synchronous, non-failing storage (each
\* set is applied during its call, so in the order of the calls), no
\* serialize function of a selected field throwing, and nothing left to
\* happen: no timer pending, no storage call in flight
Quiescent ==
    /\ phase = "mounted"
    /\ opts.autoSave
    /\ opts.sync
    /\ ~opts.failing
    /\ ~SomeThrows(w.form, opts, "serialize")
    /\ w.timeout = <<>>
    /\ w.orphans = <<>>
    /\ w.inflight = <<>>

\* C32 as stated: in a session in which a field has changed and clear() is
\* not called, once every timer has fired and every storage call has
\* finished the record is the encoding of serialize(select(form values)),
\* with or without debounce and also when debounce has changed on the way.
C32_AsStated ==
    Quiescent => w.item = <<JsonStringify(Reference(w.form, opts, "serialize"))>>
====
